---- MODULE Spec2Model ----
(***************************************************************************)
(* Model of AnimationController (behaviors/animation/AnimationController): *)
(* the node graph, the 2D blend weight calculator, the cross-fade          *)
(* scheduler and the transition evaluator, together with the part of the   *)
(* clip provider (AnimationGroup) the controller drives: per clip a        *)
(* playing flag and a weight.                                              *)
(*                                                                         *)
(* Numbers are fixed point.  A weight w stands for w / WScale and a         *)
(* distance d for d / 1000; times are whole units, and the progress field  *)
(* of a BlendInfo holds the numerator of progress, over its duration.      *)
(***************************************************************************)
EXTENDS Integers, Sequences, FiniteSets, TLC

\* ------------------------------------------------------------------ bounds
MaxDuration == 2     \* crossFadeDuration is drawn from 0..MaxDuration
MaxDelta == 1        \* scene.deltaTime is drawn from 0..MaxDelta
MaxDirX == 0         \* directionX is set to values in 1..MaxDirX (0 while unset)
MaxDirZ == 1         \* directionZ is drawn from 0..MaxDirZ
MaxBlendInput == 3   \* the blend calculator is run on inputs in -MaxBlendInput..MaxBlendInput
MaxEaseDuration == 6 \* the easing curve is run on cross-fades of a duration in 1..MaxEaseDuration

WUnit == 3           \* resolution of a weight: the weight 1.0 is 3600 * WUnit
RawUnit == 50        \* resolution of a raw inverse distance
WScale == 3600 * WUnit
EpsilonMilli == 1                      \* the 0.001 of updateBlendNodeWeights

RECURSIVE SqrtUp(_, _)
SqrtUp(n, r) == IF (r + 1) * (r + 1) > n THEN r ELSE SqrtUp(n, r + 1)

\* Math.sqrt of an integer n, in thousandths (floor)
RECURSIVE SqrtBin(_, _, _)
SqrtBin(n, lo, hi) ==
    IF lo >= hi THEN lo
    ELSE LET mid == (lo + hi + 1) \div 2
         IN  IF mid * mid <= n THEN SqrtBin(n, mid, hi) ELSE SqrtBin(n, lo, mid - 1)

SqrtMilli(n) == SqrtBin(n * 1000000, 0, 1000 * (SqrtUp(n, 0) + 1))

\* ------------------------------------------------------------- data model
Null == [null |-> TRUE]
Undefined == [type |-> "undefined"]
Num(n) == [type |-> "number", val |-> n]
Bool(b) == [type |-> "boolean", val |-> b]

AnimationState ==
    {"Idle", "WalkForward", "WalkBackward", "WalkLeft", "WalkRight",
     "RunForward", "RunBackward", "RunLeft", "RunRight", "JumpUp", "JumpFalling"}

Sample(st, px, pz) == [state |-> st, position |-> [x |-> px, z |-> pz]]

ANIMATION_NODES ==
    << [type |-> "blend", id |-> "movement",
        animations |-> << Sample("Idle", 0, 0),
                          Sample("WalkForward", 0, 1),
                          Sample("WalkBackward", 0, -1),
                          Sample("WalkLeft", -1, 0),
                          Sample("WalkRight", 1, 0),
                          Sample("RunForward", 0, 2),
                          Sample("RunBackward", 0, -2),
                          Sample("RunLeft", -2, 0),
                          Sample("RunRight", 2, 0) >>],
       [type |-> "single", id |-> "JumpUp", state |-> "JumpUp", speed |-> 1, loop |-> FALSE],
       [type |-> "single", id |-> "JumpFalling", state |-> "JumpFalling", speed |-> 1, loop |-> TRUE] >>

Cond(v, op, val) == [variable |-> v, operator |-> op, value |-> val]
Trans(f, t, cs, d) == [from |-> f, to |-> t, conditions |-> cs, crossFadeDuration |-> d]

ANIMATION_TRANSITIONS ==
    << Trans("movement", "JumpUp", << Cond("isJumping", "==", Bool(TRUE)) >>, 0),
       Trans("JumpUp", "JumpFalling", << >>, 0),
       Trans("JumpFalling", "movement", << Cond("isJumping", "==", Bool(FALSE)) >>, 0) >>

INITIAL_NODE_ID == "movement"

\* this.nodes: the map built by the constructor, keyed by node id
NodeIds == {ANIMATION_NODES[i].id : i \in DOMAIN ANIMATION_NODES}
nodes == [id \in NodeIds |-> (CHOOSE n \in {ANIMATION_NODES[i] : i \in DOMAIN ANIMATION_NODES} : n.id = id)]

\* this.nodes.get(key); the key may be any string, also an AnimationState
NodesGet(key) == IF key \in NodeIds THEN nodes[key] ELSE Undefined

\* loopAnimation as configured by setupAnimations
LoopAnimation(c) ==
    IF \E id \in NodeIds : nodes[id].type = "single" /\ nodes[id].state = c
    THEN (CHOOSE n \in {nodes[id] : id \in NodeIds} : n.type = "single" /\ n.state = c).loop
    ELSE TRUE

VARIABLES
    pc,               \* "constructed", "idle" (between frames), "update" (between updateCrossFade and update)
    currentNodeId,
    activeBlend,      \* Null or a BlendInfo
    blendWeights,     \* Map<AnimationState, number>: a function on the keys present
    transitions,
    variables,        \* Map<string, number | boolean>, Undefined for an absent key
    animationGroups,  \* the AnimationStates bound to an AnimationGroup
    isPlaying,        \* AnimationGroup.isPlaying, per clip
    weight,           \* the weight last given to the group's animatables, per clip
    ended,            \* per clip: its last stop was a natural completion
    fired,            \* index of the transition update() selected in the frame just run, 0 for none
    threw,            \* the last call (playNode, the frame callback) threw
    graphData,        \* the node list and the initial node id the constructor reads
    notified,         \* the notification an AnimationGroup raised in the step just taken, or Null
    onAnimationEvent  \* the events notifyObservers delivered in the step just taken, in order

vars == << pc, currentNodeId, activeBlend, blendWeights, transitions, variables,
           animationGroups, isPlaying, weight, ended, fired, threw, graphData,
           notified, onAnimationEvent >>

VarNames == {"isJumping", "directionX", "directionZ"}


\* the mutable state the handlers work on, as one record
St == [currentNodeId |-> currentNodeId, activeBlend |-> activeBlend,
       blendWeights |-> blendWeights, isPlaying |-> isPlaying,
       weight |-> weight, ended |-> ended]

\* ------------------------------------------------------------ constructor
\* the first loop of the constructor: a node id that this.nodes already has
RECURSIVE DuplicateFrom(_, _, _)
DuplicateFrom(nodeList, i, seen) ==
    IF i > Len(nodeList) THEN FALSE
    ELSE IF nodeList[i].id \in seen THEN TRUE
    ELSE DuplicateFrom(nodeList, i + 1, seen \cup {nodeList[i].id})

\* a constructor that validates the from of a transition only
ConstructorThrowsFromOnly(nodeList, transitionList, initialNodeId) ==
    LET ids == {nodeList[i].id : i \in DOMAIN nodeList}
    IN  \/ DuplicateFrom(nodeList, 1, {})
        \/ \E i \in DOMAIN transitionList : transitionList[i].from \notin ids
        \/ initialNodeId \notin ids

\* the constructor throws: a duplicate node id, a transition from or to a node
\* that is not in the map, an initial node id that is not in the map
ConstructorThrows(nodeList, transitionList, initialNodeId) ==
    LET ids == {nodeList[i].id : i \in DOMAIN nodeList}
    IN  \/ DuplicateFrom(nodeList, 1, {})
        \/ \E i \in DOMAIN transitionList :
              transitionList[i].from \notin ids \/ transitionList[i].to \notin ids
        \/ initialNodeId \notin ids

\* ---------------------------------------------------------- clip provider
\* animGroup?.start(): a group that is already playing is left alone
Start(s, c) ==
    IF c \in animationGroups /\ ~s.isPlaying[c]
    THEN [s EXCEPT !.isPlaying[c] = TRUE, !.ended[c] = FALSE]
    ELSE s

\* animGroup?.stop()
Stop(s, c) ==
    IF c \in animationGroups /\ s.isPlaying[c]
    THEN [s EXCEPT !.isPlaying[c] = FALSE, !.ended[c] = FALSE]
    ELSE s

\* animGroup?.setWeightForAllAnimatables(w)
SetWeight(s, c, w) ==
    IF c \in animationGroups THEN [s EXCEPT !.weight[c] = w] ELSE s

\* ------------------------------------------------------ blend calculator
\* (this.variables.get(name) as number) || 0
DirInput(name) ==
    LET v == variables[name]
    IN  IF v = Undefined THEN 0
        ELSE IF v.type = "boolean" THEN (IF v.val THEN 1 ELSE 0)
        ELSE v.val

\* a finite double whose square is beyond Number.MAX_VALUE (1e200, say), and
\* the NaN that 0 / 0 yields, written as numbers no computed weight takes
Huge == 1000000
NaN == -1

IsHuge(v) == v >= Huge \/ -v >= Huge

\* a raw weight that grows with the distance
RawWeightGrowing(x, z, pos) ==
    LET dx == IF IsHuge(x) THEN x ELSE x - pos.x
        dz == IF IsHuge(z) THEN z ELSE z - pos.z
    IN  IF IsHuge(dx) \/ IsHuge(dz) THEN 0
        ELSE (RawUnit * (SqrtMilli(dx * dx + dz * dz) + EpsilonMilli)) \div 1000

\* 1 / (distance + 0.001), in 1/RawUnit.  A sample position is absorbed by a
\* huge input; dx * dx is then Infinity, the distance Infinity and the raw
\* weight 1 / Infinity = 0
RawWeight(x, z, pos) ==
    LET dx == IF IsHuge(x) THEN x ELSE x - pos.x
        dz == IF IsHuge(z) THEN z ELSE z - pos.z
    IN  IF IsHuge(dx) \/ IsHuge(dz) THEN 0
        ELSE (1000 * RawUnit) \div (SqrtMilli(dx * dx + dz * dz) + EpsilonMilli)

RECURSIVE SumRaw(_, _, _, _)
SumRaw(anims, x, z, i) ==
    IF i > Len(anims) THEN 0
    ELSE RawWeight(x, z, anims[i].position) + SumRaw(anims, x, z, i + 1)

\* the normalised weights of a blend node at the input (x, z); weight /
\* totalWeight is 0 / 0 when every raw weight is 0
BlendWeightsAt(blendNode, x, z) ==
    LET anims == blendNode.animations
        totalWeight == SumRaw(anims, x, z, 1)
    IN  [c \in {anims[i].state : i \in DOMAIN anims} |->
            LET a == CHOOSE i \in DOMAIN anims : anims[i].state = c
            IN  IF totalWeight = 0 THEN NaN
                ELSE (RawWeight(x, z, anims[a].position) * WScale) \div totalWeight]

DirsX == 0 .. MaxDirX
DirsZ == 0 .. MaxDirZ

\* the weights of the node "movement" for every input of the model, computed once
MovementWeights == [x \in DirsX |-> [z \in DirsZ |-> BlendWeightsAt(nodes["movement"], x, z)]]

updateBlendNodeWeights(s, blendNode) ==
    LET x == DirInput("directionX")
        z == DirInput("directionZ")
    IN  [s EXCEPT !.blendWeights =
            IF blendNode.id = "movement" /\ x \in DirsX /\ z \in DirsZ
            THEN MovementWeights[x][z]
            ELSE BlendWeightsAt(blendNode, x, z)]

\* this.blendWeights.get(state) || 0
BlendWeightOr0(s, c) == IF c \in DOMAIN s.blendWeights THEN s.blendWeights[c] ELSE 0

applyBlendNodeWeights(s) ==
    LET keys == DOMAIN s.blendWeights \cap animationGroups
    IN  [s EXCEPT
            !.isPlaying = [c \in AnimationState |-> IF c \in keys THEN TRUE ELSE @[c]],
            !.ended = [c \in AnimationState |-> IF c \in keys /\ ~s.isPlaying[c] THEN FALSE ELSE @[c]],
            !.weight = [c \in AnimationState |-> IF c \in keys THEN s.blendWeights[c] ELSE @[c]]]

stopAllAnimations(s) ==
    LET playing == {c \in animationGroups : s.isPlaying[c]}
    IN  [s EXCEPT
            !.isPlaying = [c \in AnimationState |-> IF c \in playing THEN FALSE ELSE @[c]],
            !.ended = [c \in AnimationState |-> IF c \in playing THEN FALSE ELSE @[c]],
            !.weight = [c \in AnimationState |-> IF c \in playing THEN 0 ELSE @[c]]]

\* a scan that lets a later member of equal weight take over
RECURSIVE DominantFromLast(_, _, _, _, _)
DominantFromLast(s, anims, i, maxWeight, dominantState) ==
    IF i > Len(anims) THEN dominantState
    ELSE LET w == BlendWeightOr0(s, anims[i].state)
         IN  IF w >= maxWeight
             THEN DominantFromLast(s, anims, i + 1, w, anims[i].state)
             ELSE DominantFromLast(s, anims, i + 1, maxWeight, dominantState)

RECURSIVE DominantFrom(_, _, _, _, _)
DominantFrom(s, anims, i, maxWeight, dominantState) ==
    IF i > Len(anims) THEN dominantState
    ELSE LET w == BlendWeightOr0(s, anims[i].state)
         IN  IF w > maxWeight
             THEN DominantFrom(s, anims, i + 1, w, anims[i].state)
             ELSE DominantFrom(s, anims, i + 1, maxWeight, dominantState)

getDominantAnimationState(s, nodeId) ==
    LET currentNode == nodes[nodeId]
    IN  IF currentNode.type = "single" THEN currentNode.state
        ELSE DominantFrom(s, currentNode.animations, 1, 0, currentNode.animations[1].state)

\* ---------------------------------------------------- cross-fade scheduler
\* an ease-in curve: t * t throughout
easeInQuad(n, d) == (n * n * WScale) \div (d * d)

\* easeInOutQuad(t) for t = n / d, in 1/WScale
easeInOutQuad(n, d) ==
    IF 2 * n < d
    THEN (2 * n * n * WScale) \div (d * d)
    ELSE (((4 * d - 2 * n) * n - d * d) * WScale) \div (d * d)

BlendInfo(f, t, p, d) == [fromState |-> f, toState |-> t, progress |-> p, duration |-> d]

completeCrossFade(s) ==
    IF s.activeBlend = Null THEN s
    ELSE
    LET currentNode == nodes[s.currentNodeId]
        previousNode == NodesGet(s.activeBlend.fromState)
        keys == DOMAIN s.blendWeights \cap animationGroups
        s1 == IF currentNode.type = "blend"
              THEN [s EXCEPT !.weight = [c \in AnimationState |->
                                IF c \in keys THEN s.blendWeights[c] ELSE @[c]]]
              ELSE SetWeight(s, s.activeBlend.toState, WScale)
        s2 == IF previousNode # Undefined /\ previousNode.type = "blend"
              THEN LET members == {previousNode.animations[i].state :
                                      i \in DOMAIN previousNode.animations} \cap animationGroups
                   IN  [s1 EXCEPT
                          !.isPlaying = [c \in AnimationState |-> IF c \in members THEN FALSE ELSE @[c]],
                          !.ended = [c \in AnimationState |->
                                        IF c \in members /\ s1.isPlaying[c] THEN FALSE ELSE @[c]],
                          !.weight = [c \in AnimationState |-> IF c \in members THEN 0 ELSE @[c]]]
              ELSE SetWeight(Stop(s1, s.activeBlend.fromState), s.activeBlend.fromState, 0)
    IN  [s2 EXCEPT !.activeBlend = Null]

updateCrossFadeWeights(s) ==
    IF s.activeBlend = Null THEN s
    ELSE
    LET progress == s.activeBlend.progress
        easeProgress == easeInOutQuad(progress, s.activeBlend.duration)
        currentNode == NodesGet(s.activeBlend.toState)
        keys == DOMAIN s.blendWeights \cap animationGroups
        s1 == IF currentNode # Undefined /\ currentNode.type = "blend"
              THEN [s EXCEPT !.weight = [c \in AnimationState |->
                                IF c \in keys
                                THEN (s.blendWeights[c] * easeProgress) \div WScale
                                ELSE @[c]]]
              ELSE SetWeight(s, s.activeBlend.toState, easeProgress)
        previousNode == NodesGet(s.activeBlend.fromState)
    IN  IF previousNode # Undefined /\ previousNode.type = "blend"
        THEN LET members == {previousNode.animations[i].state :
                                i \in DOMAIN previousNode.animations} \cap animationGroups
             IN  [s1 EXCEPT !.weight = [c \in AnimationState |->
                                IF c \in members
                                THEN (BlendWeightOr0(s1, c) * (WScale - easeProgress)) \div WScale
                                ELSE @[c]]]
        ELSE SetWeight(s1, s.activeBlend.fromState, WScale - easeProgress)

\* a scheduler that completes a cross-fade only once progress has passed 1
updateCrossFadeLate(s, deltaTime) ==
    IF s.activeBlend = Null THEN s
    ELSE
    LET s1 == [s EXCEPT !.activeBlend.progress = @ + deltaTime]
    IN  IF s1.activeBlend.progress > s1.activeBlend.duration
        THEN completeCrossFade(s1)
        ELSE updateCrossFadeWeights(s1)

\* a scheduler that keeps progress below 1 and so never completes
updateCrossFadeClamped(s, deltaTime) ==
    IF s.activeBlend = Null THEN s
    ELSE
    LET p == s.activeBlend.progress + deltaTime
        s1 == [s EXCEPT !.activeBlend.progress =
                  IF p >= s.activeBlend.duration THEN s.activeBlend.duration - 1 ELSE p]
    IN  updateCrossFadeWeights(s1)

\* progress += deltaTime / duration, and the test progress >= 1
updateCrossFade(s, deltaTime) ==
    IF s.activeBlend = Null THEN s
    ELSE
    LET s1 == [s EXCEPT !.activeBlend.progress = @ + deltaTime]
    IN  IF s1.activeBlend.progress >= s1.activeBlend.duration
        THEN completeCrossFade(s1)
        ELSE updateCrossFadeWeights(s1)

startCrossFade(s, toState, crossFadeDuration) ==
    LET s1 == IF s.activeBlend # Null THEN completeCrossFade(s) ELSE s
    IN  IF toState \notin animationGroups THEN s1
        ELSE LET s2 == Start(SetWeight(s1, toState, WScale), toState)
                 prevState == getDominantAnimationState(s2, s2.currentNodeId)
             IN  [s2 EXCEPT !.activeBlend = BlendInfo(prevState, toState, 0, crossFadeDuration)]

startBlendCrossFade(s, toBlendNode, crossFadeDuration) ==
    LET members == {toBlendNode.animations[i].state :
                       i \in DOMAIN toBlendNode.animations} \cap animationGroups
        s1 == [s EXCEPT
                  !.weight = [c \in AnimationState |-> IF c \in members THEN 0 ELSE @[c]],
                  !.isPlaying = [c \in AnimationState |-> IF c \in members THEN TRUE ELSE @[c]],
                  !.ended = [c \in AnimationState |->
                                IF c \in members /\ ~s.isPlaying[c] THEN FALSE ELSE @[c]]]
        dominantState == getDominantAnimationState(s1, toBlendNode.id)
        prevState == getDominantAnimationState(s1, s1.currentNodeId)
    IN  [s1 EXCEPT !.activeBlend = BlendInfo(prevState, dominantState, 0, crossFadeDuration)]

\* ------------------------------------------------------- node activation
playAnimationImmediate(s, state) ==
    Start(SetWeight(stopAllAnimations(s), state, WScale), state)

\* the Error of line 335 is caught by playNode: nothing but currentNodeId changes
startSingleNode(s, node, crossFadeDuration) ==
    IF node.state \notin animationGroups THEN s
    ELSE IF crossFadeDuration > 0
         THEN startCrossFade(s, node.state, crossFadeDuration)
         ELSE playAnimationImmediate(s, node.state)

startBlendNode(s, node, crossFadeDuration) ==
    LET s1 == updateBlendNodeWeights(s, node)
    IN  IF crossFadeDuration > 0
        THEN startBlendCrossFade(s1, node, crossFadeDuration)
        ELSE applyBlendNodeWeights(stopAllAnimations(s1))

\* an early return on the current node that does not look at the cross-fade
PlayNodeReturnsEarlyOnCurrent(s, nodeId) == s.currentNodeId = nodeId

\* playNode returns early on the current node without a cross-fade
PlayNodeReturnsEarly(s, nodeId) == s.currentNodeId = nodeId /\ s.activeBlend = Null

\* startSingleNode throws: no AnimationGroup for the clip of the node
startSingleNodeThrows(node) == node.state \notin animationGroups

\* a playNode without the catch: the Error of startSingleNode gets out
PlayNodeThrowsUncaught(s, nodeId) ==
    /\ ~PlayNodeReturnsEarly(s, nodeId)
    /\ \/ nodeId \notin NodeIds
       \/ nodes[nodeId].type = "single" /\ startSingleNodeThrows(nodes[nodeId])

\* playNode throws on a node id that is not in the graph; the Error of
\* startSingleNode is caught
PlayNodeThrows(s, nodeId) == ~PlayNodeReturnsEarly(s, nodeId) /\ nodeId \notin NodeIds

\* a playNode that looks the node up after it has cancelled the cross-fade in flight
playNodeLateLookup(s, nodeId, crossFadeDuration) ==
    IF PlayNodeReturnsEarly(s, nodeId) THEN s
    ELSE IF nodeId \notin NodeIds THEN completeCrossFade(s)
    ELSE LET node == nodes[nodeId]
             s1 == IF node.type = "blend"
                   THEN startBlendNode(s, node, crossFadeDuration)
                   ELSE startSingleNode(s, node, crossFadeDuration)
         IN  [s1 EXCEPT !.currentNodeId = nodeId]

playNode(s, nodeId, crossFadeDuration) ==
    IF PlayNodeReturnsEarly(s, nodeId) THEN s
    ELSE IF nodeId \notin NodeIds THEN s
    ELSE LET node == nodes[nodeId]
             s1 == IF node.type = "blend"
                   THEN startBlendNode(s, node, crossFadeDuration)
                   ELSE startSingleNode(s, node, crossFadeDuration)
         IN  [s1 EXCEPT !.currentNodeId = nodeId]

\* --------------------------------------------------- transition evaluator
\* a condition evaluator without the test of line 656: an absent variable is
\* compared as undefined, and undefined !== target is true
evaluateConditionUnset(condition) ==
    LET value == variables[condition.variable]
        targetValue == condition.value
        bothNumbers == value # Undefined /\ value.type = "number" /\ targetValue.type = "number"
        same == value # Undefined /\ value.type = targetValue.type /\ value.val = targetValue.val
    IN  CASE condition.operator = "==" -> same
          [] condition.operator = "!=" -> ~same
          [] condition.operator = ">"  -> bothNumbers /\ value.val > targetValue.val
          [] condition.operator = "<"  -> bothNumbers /\ value.val < targetValue.val
          [] condition.operator = ">=" -> bothNumbers /\ value.val >= targetValue.val
          [] condition.operator = "<=" -> bothNumbers /\ value.val <= targetValue.val
          [] OTHER -> FALSE

\* a condition evaluator with loose comparisons: a boolean counts as 0 or 1
evaluateConditionLoose(condition) ==
    LET value == variables[condition.variable]
        targetValue == condition.value
        n(v) == IF v.type = "boolean" THEN (IF v.val THEN 1 ELSE 0) ELSE v.val
    IN  IF value = Undefined THEN FALSE
        ELSE CASE condition.operator = "==" -> n(value) = n(targetValue)
               [] condition.operator = "!=" -> n(value) # n(targetValue)
               [] condition.operator = ">"  -> n(value) > n(targetValue)
               [] condition.operator = "<"  -> n(value) < n(targetValue)
               [] condition.operator = ">=" -> n(value) >= n(targetValue)
               [] condition.operator = "<=" -> n(value) <= n(targetValue)
               [] OTHER -> FALSE

evaluateCondition(condition) ==
    LET value == variables[condition.variable]
        targetValue == condition.value
        bothNumbers == value.type = "number" /\ targetValue.type = "number"
    IN  IF value = Undefined THEN FALSE
        ELSE CASE condition.operator = "==" ->
                    value.type = targetValue.type /\ value.val = targetValue.val
               [] condition.operator = "!=" ->
                    ~(value.type = targetValue.type /\ value.val = targetValue.val)
               [] condition.operator = ">"  -> bothNumbers /\ value.val > targetValue.val
               [] condition.operator = "<"  -> bothNumbers /\ value.val < targetValue.val
               [] condition.operator = ">=" -> bothNumbers /\ value.val >= targetValue.val
               [] condition.operator = "<=" -> bothNumbers /\ value.val <= targetValue.val
               [] OTHER -> FALSE

\* the test one iteration of evaluateTransitions makes on a transition from the current node
TransitionValid(s, transition) ==
    IF Len(transition.conditions) = 0
    THEN LET currentNode == nodes[s.currentNodeId]
         IN  /\ currentNode.type = "single"
             /\ currentNode.state \in animationGroups
             /\ ~s.isPlaying[currentNode.state]
    ELSE \A k \in DOMAIN transition.conditions : evaluateCondition(transition.conditions[k])

\* a scan that keeps looking after a match and returns the last one
RECURSIVE ScanTransitionsLast(_, _)
ScanTransitionsLast(s, i) ==
    IF i > Len(transitions) THEN 0
    ELSE LET later == ScanTransitionsLast(s, i + 1)
         IN  IF later # 0 THEN later
             ELSE IF transitions[i].from = s.currentNodeId /\ TransitionValid(s, transitions[i])
                  THEN i ELSE 0

\* a scan that gives up at an automatic transition that cannot fire
RECURSIVE ScanTransitionsBreaking(_, _)
ScanTransitionsBreaking(s, i) ==
    IF i > Len(transitions) THEN 0
    ELSE IF transitions[i].from # s.currentNodeId THEN ScanTransitionsBreaking(s, i + 1)
    ELSE IF TransitionValid(s, transitions[i]) THEN i
    ELSE IF Len(transitions[i].conditions) = 0 THEN 0
    ELSE ScanTransitionsBreaking(s, i + 1)

RECURSIVE ScanTransitions(_, _)
ScanTransitions(s, i) ==
    IF i > Len(transitions) THEN 0
    ELSE IF transitions[i].from # s.currentNodeId THEN ScanTransitions(s, i + 1)
    ELSE IF TransitionValid(s, transitions[i]) THEN i
    ELSE ScanTransitions(s, i + 1)

\* an evaluator that waits for the cross-fade in flight to end
evaluateTransitionsWhenSettled(s) ==
    IF s.activeBlend # Null THEN 0 ELSE ScanTransitions(s, 1)

\* index of the transition returned, 0 for null
evaluateTransitions(s) == ScanTransitions(s, 1)

\* a blend part that applies the weights in every frame, cross-fade or not
updateBlendPartAlways(s) ==
    LET currentNode == nodes[s.currentNodeId]
    IN  IF currentNode.type = "blend"
        THEN applyBlendNodeWeights(updateBlendNodeWeights(s, currentNode))
        ELSE s

\* update(), up to the evaluation of the transitions: in a blend node the
\* weights are recomputed, and applied unless a cross-fade is in flight
updateBlendPart(s) ==
    LET currentNode == nodes[s.currentNodeId]
    IN  IF currentNode.type = "blend"
        THEN LET w == updateBlendNodeWeights(s, currentNode)
             IN  IF w.activeBlend = Null THEN applyBlendNodeWeights(w) ELSE w
        ELSE s

\* an update() that evaluates and activates before it turns to the weights of
\* the blend node it started in
updateActivatesFirst(s) ==
    LET currentNode == nodes[s.currentNodeId]
        transition == evaluateTransitions(s)
        s1 == IF transition # 0
              THEN playNode(s, transitions[transition].to, transitions[transition].crossFadeDuration)
              ELSE s
    IN  IF currentNode.type = "blend"
        THEN LET w == updateBlendNodeWeights(s1, currentNode)
             IN  IF w.activeBlend = Null THEN applyBlendNodeWeights(w) ELSE w
        ELSE s1

\* an update() that goes back to the initial node, by plain assignment, when
\* it selects no transition
updateFallsBack(s) ==
    LET s1 == updateBlendPart(s)
        transition == evaluateTransitions(s1)
    IN  IF transition # 0
        THEN playNode(s1, transitions[transition].to, transitions[transition].crossFadeDuration)
        ELSE [s1 EXCEPT !.currentNodeId = INITIAL_NODE_ID]

\* an update() that goes on evaluating in the node it has just entered
updateChained(s) ==
    LET s1 == updateBlendPart(s)
        transition == evaluateTransitions(s1)
    IN  IF transition = 0 THEN s1
        ELSE LET s2 == playNode(s1, transitions[transition].to,
                                transitions[transition].crossFadeDuration)
                 next == evaluateTransitions(s2)
             IN  IF next = 0 THEN s2
                 ELSE playNode(s2, transitions[next].to, transitions[next].crossFadeDuration)

\* update(): the state it leaves
update(s) ==
    LET s1 == updateBlendPart(s)
        transition == evaluateTransitions(s1)
    IN  IF transition # 0
        THEN playNode(s1, transitions[transition].to, transitions[transition].crossFadeDuration)
        ELSE s1

\* update(): the transition it selected
updateSelects(s) == evaluateTransitions(updateBlendPart(s))

\* updateCrossFade() throws: completeCrossFade does not find the current node
updateCrossFadeThrows(s, deltaTime) ==
    /\ s.activeBlend # Null
    /\ s.activeBlend.progress + deltaTime >= s.activeBlend.duration
    /\ s.currentNodeId \notin NodeIds

\* update() throws: the current node is not in the graph, or playNode throws
updateThrows(s) ==
    \/ s.currentNodeId \notin NodeIds
    \/ LET transition == updateSelects(s)
       IN  /\ transition # 0
           /\ PlayNodeThrows(s, transitions[transition].to)

\* ----------------------------------------------------------- variable store
\* a getVariable that reads like the blend calculator does: 0 for an absent name
getVariableOr0(name) == IF variables[name] = Undefined THEN Num(0) ELSE variables[name]

\* this.variables.get(name): undefined for a name that has no entry
getVariable(name) == variables[name]

\* ------------------------------------------------------- event republisher
\* the three observables of an AnimationGroup that setupAnimationEvents listens to
Observables ==
    {"onAnimationGroupPlayObservable", "onAnimationGroupEndObservable",
     "onAnimationGroupLoopObservable"}

\* handlers that publish the loop of a clip as its end
setupAnimationEventsLoopAsEnd(state) ==
    [o \in Observables |->
        [animationName |-> state,
         eventType |-> IF o = "onAnimationGroupPlayObservable" THEN "start" ELSE "end"]]

\* the event each of the three handlers added for a group publishes; state is
\* the AnimationState the group was bound to
setupAnimationEvents(state) ==
    [o \in Observables |->
        [animationName |-> state,
         eventType |-> CASE o = "onAnimationGroupPlayObservable" -> "start"
                         [] o = "onAnimationGroupEndObservable" -> "end"
                         [] o = "onAnimationGroupLoopObservable" -> "loop"]]

\* what onAnimationEvent delivers when the group named group raises
\* observable: setupAnimations has added handlers to the groups it bound only
Republished(group, observable) ==
    IF group \in animationGroups
    THEN << setupAnimationEvents(group)[observable] >>
    ELSE << >>

\* the step raises no notification
NoNotification == notified' = Null /\ onAnimationEvent' = << >>

\* ---------------------------------------------------------------- actions
Install(s) ==
    /\ currentNodeId' = s.currentNodeId
    /\ activeBlend' = s.activeBlend
    /\ blendWeights' = s.blendWeights
    /\ isPlaying' = s.isPlaying
    /\ weight' = s.weight
    /\ ended' = s.ended

\* the sets of clips the scene may hold an AnimationGroup for
ResolvedChoices ==
    {AnimationState, AnimationState \ {"JumpUp"}}

Durations == 0 .. MaxDuration
DeltaTimes == 0 .. MaxDelta

InputValues(name) ==
    IF name = "isJumping" THEN {Bool(TRUE), Bool(FALSE)}
    ELSE IF name = "directionX" THEN {Num(n) : n \in 1 .. MaxDirX}
    ELSE {Num(n) : n \in DirsZ}

\* the state the constructor leaves
InitController ==
    /\ pc = "constructed"
    /\ currentNodeId = INITIAL_NODE_ID
    /\ activeBlend = Null
    /\ blendWeights = << >>
    /\ variables = [n \in VarNames |-> Undefined]
    /\ animationGroups = {}
    /\ isPlaying = [c \in AnimationState |-> FALSE]
    /\ weight = [c \in AnimationState |-> 0]
    /\ ended = [c \in AnimationState |-> FALSE]
    /\ fired = 0
    /\ threw = FALSE
    /\ graphData = [nodes |-> ANIMATION_NODES, initial |-> INITIAL_NODE_ID]
    /\ notified = Null
    /\ onAnimationEvent = << >>

Init ==
    /\ InitController
    /\ transitions = ANIMATION_TRANSITIONS

\* onAwake: bind the groups of the scene, stopped at weight 0, and play the initial node
setupAnimationsWith(choices) ==
    /\ pc = "constructed"
    /\ \E bound \in choices :
          /\ animationGroups' = bound
          /\ LET s == playNode(St, currentNodeId, 0)
             IN  Install(s)
    /\ pc' = "idle"
    /\ NoNotification
    /\ UNCHANGED << transitions, variables, fired, threw, graphData >>

setupAnimations == setupAnimationsWith(ResolvedChoices)

SetVariable ==
    /\ pc = "idle"
    /\ \E name \in VarNames : \E value \in InputValues(name) :
          variables' = [variables EXCEPT ![name] = value]
    /\ threw' = FALSE /\ fired' = 0
    /\ NoNotification
    /\ UNCHANGED << pc, currentNodeId, activeBlend, blendWeights, transitions,
                    animationGroups, isPlaying, weight, ended, graphData >>

\* a call of the public playNode between two frames
PlayNodeWith(nodeId, crossFadeDuration) ==
    /\ pc = "idle"
    /\ Install(playNode(St, nodeId, crossFadeDuration))
    /\ threw' = PlayNodeThrows(St, nodeId)
    /\ fired' = 0
    /\ NoNotification
    /\ UNCHANGED << pc, transitions, variables, animationGroups, graphData >>

PlayNode ==
    \E nodeId \in NodeIds \cup {"Unknown"} : \E crossFadeDuration \in Durations :
        PlayNodeWith(nodeId, crossFadeDuration)

\* a playing clip that does not loop reaches its end: the group stops and
\* raises onAnimationGroupEndObservable, whose handler publishes the event
ClipEnd ==
    /\ pc = "idle"
    /\ \E c \in animationGroups :
          /\ isPlaying[c]
          /\ ~LoopAnimation(c)
          /\ isPlaying' = [isPlaying EXCEPT ![c] = FALSE]
          /\ ended' = [ended EXCEPT ![c] = TRUE]
          /\ notified' = [group |-> c, observable |-> "onAnimationGroupEndObservable"]
          /\ onAnimationEvent' = Republished(c, "onAnimationGroupEndObservable")
    /\ threw' = FALSE /\ fired' = 0
    /\ UNCHANGED << pc, currentNodeId, activeBlend, blendWeights, transitions, variables,
                    animationGroups, weight, graphData >>

\* the before-render callback, first half: this.updateCrossFade()
TickCrossFadeBy(deltaTime) ==
    /\ pc = "idle"
    /\ Install(updateCrossFade(St, deltaTime))
    /\ threw' = updateCrossFadeThrows(St, deltaTime)
    /\ pc' = IF threw' THEN "idle" ELSE "update"
    /\ fired' = 0
    /\ NoNotification
    /\ UNCHANGED << transitions, variables, animationGroups, graphData >>

TickCrossFade == \E deltaTime \in DeltaTimes : TickCrossFadeBy(deltaTime)

\* a second half of the frame that consumes the jump request it has served
TickUpdateConsumesInput ==
    /\ pc = "update"
    /\ Install(update(St))
    /\ fired' = updateSelects(St)
    /\ threw' = updateThrows(St)
    /\ pc' = "idle"
    /\ variables' = IF fired' # 0 /\ variables["isJumping"] = Bool(TRUE)
                    THEN [variables EXCEPT !["isJumping"] = Bool(FALSE)]
                    ELSE variables
    /\ NoNotification
    /\ UNCHANGED << transitions, animationGroups, graphData >>

\* the before-render callback, second half: this.update()
TickUpdate ==
    /\ pc = "update"
    /\ Install(update(St))
    /\ fired' = updateSelects(St)
    /\ threw' = updateThrows(St)
    /\ pc' = "idle"
    /\ NoNotification
    /\ UNCHANGED << transitions, variables, animationGroups, graphData >>

\* an AnimationGroup of the scene raises one of its observables (a start, a
\* loop, an end by stop()); the groups are named by the AnimationState they match
GroupNotifies(group, observable) ==
    /\ pc \in {"constructed", "idle"}
    /\ notified' = [group |-> group, observable |-> observable]
    /\ onAnimationEvent' = Republished(group, observable)
    /\ threw' = FALSE /\ fired' = 0
    /\ UNCHANGED << pc, currentNodeId, activeBlend, blendWeights, transitions, variables,
                    animationGroups, isPlaying, weight, ended, graphData >>

GroupNotification ==
    \E group \in AnimationState : \E observable \in Observables :
        GroupNotifies(group, observable)

Next == setupAnimations \/ SetVariable \/ PlayNode \/ ClipEnd \/ TickCrossFade \/ TickUpdate

Spec == Init /\ [][Next]_vars

\* ------------------------------------------------------------- properties
\* the clips of a node: the clip of a Single node, the members of a Blend node
NodeClips(nodeId) ==
    IF nodes[nodeId].type = "single" THEN {nodes[nodeId].state}
    ELSE {nodes[nodeId].animations[i].state : i \in DOMAIN nodes[nodeId].animations}

\* a step between frames that replaces an in-flight cross-fade by a new record
NewCrossFadeStep ==
    /\ pc = "idle" /\ pc' = "idle"
    /\ activeBlend # Null /\ activeBlend' # Null
    /\ activeBlend' # activeBlend

\* C1: whenever a new cross-fade is started while another is in flight, the
\* in-flight one has been finalized first: its outgoing clip is stopped at
\* weight 0 (unless the new target starts it again) and its Single target is
\* at weight 1 -- for a Single as for a Blend new target.
C1_FinalizesPriorFirst ==
    [][NewCrossFadeStep =>
          /\ activeBlend.fromState \notin NodeClips(currentNodeId') =>
                ~isPlaying'[activeBlend.fromState] /\ weight'[activeBlend.fromState] = 0
          /\ (nodes[currentNodeId].type = "single"
                /\ activeBlend.toState # activeBlend.fromState
                /\ activeBlend.toState \notin NodeClips(currentNodeId')) =>
                weight'[activeBlend.toState] = WScale]_vars

\* C2: after a second cross-fade is started while one is active, the first
\* cross-fade's outgoing clip is not a third clip playing at non-zero weight
\* beside the two clips of the second cross-fade.
C2_NoThirdClip ==
    [][NewCrossFadeStep =>
          (activeBlend.fromState \notin {activeBlend'.fromState, activeBlend'.toState} =>
              ~(isPlaying'[activeBlend.fromState] /\ weight'[activeBlend.fromState] > 0))]_vars

RECURSIVE SumOver(_, _)
SumOver(f, S) ==
    IF S = {} THEN 0
    ELSE LET c == CHOOSE x \in S : TRUE IN f[c] + SumOver(f, S \ {c})

\* the sum of the weights of the clips that are playing
PlayingWeight == SumOver(weight, {c \in AnimationState : isPlaying[c]})

\* C3: the weights of the playing clips never sum to more than 1.
C3_NoDoubleCount == PlayingWeight <= WScale

\* C4: at the end of a frame without an active cross-fade, every clip playing
\* at non-zero weight belongs to the current node (stated for the setups in
\* which every clip is bound).
C4_NoOrphanWeight ==
    (pc = "idle" /\ activeBlend = Null /\ animationGroups = AnimationState) =>
        \A c \in AnimationState :
            (isPlaying[c] /\ weight[c] > 0) => c \in NodeClips(currentNodeId)

\* the node a clip belongs to
NodeOf(c) == CHOOSE id \in NodeIds : c \in NodeClips(id)

\* C5: when updateCrossFade raises the progress of a cross-fade from another
\* node into the current node to 1 or more, it leaves the target at full weight (a
\* Single clip at 1, the members of a Blend node at their blend weights),
\* every clip of the outgoing node stopped at weight 0, and no cross-fade.
C5_Finalization ==
    [][\A deltaTime \in DeltaTimes :
          (/\ TickCrossFadeBy(deltaTime)
           /\ activeBlend # Null
           /\ NodeOf(activeBlend.toState) = currentNodeId
           /\ NodeOf(activeBlend.fromState) # currentNodeId
           /\ activeBlend.progress + deltaTime >= activeBlend.duration)
          => /\ activeBlend' = Null
             /\ IF nodes[NodeOf(activeBlend.toState)].type = "single"
                THEN weight'[activeBlend.toState] = WScale
                ELSE \A c \in NodeClips(NodeOf(activeBlend.toState)) \cap animationGroups :
                        weight'[c] = BlendWeightOr0(St, c)
             /\ \A c \in NodeClips(NodeOf(activeBlend.fromState)) :
                   ~isPlaying'[c] /\ weight'[c] = 0]_vars

\* the clips of the Single nodes
SingleClips == {nodes[id].state : id \in {n \in NodeIds : nodes[n].type = "single"}}

\* the frame just completed left a cross-fade in progress
Ease(b) == easeInOutQuad(b.progress, b.duration)

FrameLeavesCrossFade ==
    /\ pc = "update" /\ pc' = "idle"
    /\ activeBlend' # Null
    /\ activeBlend'.progress > 0 /\ activeBlend'.progress < activeBlend'.duration

\* C6: after every frame that leaves a cross-fade between the (bound) clips
\* of two different Single nodes in progress, the outgoing and the incoming
\* weight add up to 1.
C6_SingleToSingleSum ==
    [][(/\ FrameLeavesCrossFade
        /\ activeBlend'.fromState \in SingleClips \cap animationGroups
        /\ activeBlend'.toState \in SingleClips
        /\ activeBlend'.fromState # activeBlend'.toState)
       => weight'[activeBlend'.fromState] + weight'[activeBlend'.toState] = WScale]_vars

\* a weight scaled by a factor, both in 1/WScale
Scaled(w, factor) == (w * factor) \div WScale

\* C7: after every frame that leaves a cross-fade into the current Blend node
\* in progress, every bound member of that node has its computed blend weight
\* (the one the frame started with or the one it recomputed) times
\* ease(progress).
C7_BlendTargetWeights ==
    [][(/\ FrameLeavesCrossFade
        /\ nodes[currentNodeId'].type = "blend"
        /\ activeBlend'.toState \in NodeClips(currentNodeId')
        /\ activeBlend'.fromState \notin NodeClips(currentNodeId'))
       => \A c \in NodeClips(currentNodeId') \cap animationGroups :
             \/ weight'[c] = Scaled(BlendWeightOr0(St, c), Ease(activeBlend'))
             \/ weight'[c] = Scaled(blendWeights'[c], Ease(activeBlend'))]_vars

\* C8: after every frame that leaves a cross-fade from the Blend node into the
\* current Single node in progress (the blend weights having been computed,
\* no activation in the frame), every bound member of the Blend node has its
\* last blend weight times (1 - ease(progress)).
C8_BlendSourceWeights ==
    [][(/\ FrameLeavesCrossFade
        /\ DOMAIN blendWeights # {}
        /\ currentNodeId' = currentNodeId
        /\ nodes[currentNodeId'].type = "single"
        /\ activeBlend'.toState = nodes[currentNodeId'].state
        /\ nodes[NodeOf(activeBlend'.fromState)].type = "blend")
       => \A c \in NodeClips(NodeOf(activeBlend'.fromState)) \cap animationGroups :
             weight'[c] = Scaled(BlendWeightOr0(St, c),
                                 WScale - Ease(activeBlend'))]_vars

\* ------------------------------------------- graphs other than the built-in
IsJumping(b) == << Cond("isJumping", "==", Bool(b)) >>

\* transition lists in which several transitions leave the same node
TransitionLists ==
    { ANIMATION_TRANSITIONS,
      << Trans("movement", "JumpUp", IsJumping(TRUE), 0),
         Trans("movement", "JumpFalling", IsJumping(TRUE), 0),
         Trans("JumpUp", "JumpFalling", << >>, 0),
         Trans("JumpUp", "movement", IsJumping(FALSE), 1),
         Trans("JumpFalling", "movement", IsJumping(FALSE), 1),
         Trans("JumpFalling", "JumpUp", IsJumping(FALSE), 0) >>,
      << Trans("movement", "JumpFalling", << Cond("directionZ", ">=", Num(1)) >>, 1),
         Trans("movement", "JumpUp", IsJumping(TRUE), 1),
         Trans("JumpFalling", "JumpUp", << Cond("isJumping", "!=", Bool(FALSE)) >>, 1),
         Trans("JumpFalling", "movement", << Cond("directionZ", "<", Num(1)) >>, 0),
         Trans("JumpUp", "movement", IsJumping(FALSE), 0),
         Trans("JumpUp", "JumpFalling", << >>, 1) >>,
      << Trans("movement", "JumpFalling", << Cond("directionZ", ">", Num(0)) >>, 0),
         Trans("movement", "JumpUp",
               << Cond("isJumping", "==", Bool(TRUE)), Cond("directionZ", "<=", Num(0)) >>, 1),
         Trans("JumpUp", "JumpFalling", << >>, 0),
         Trans("JumpUp", "movement",
               << Cond("isJumping", "!=", Bool(TRUE)), Cond("directionZ", "<", Num(1)) >>, 0),
         Trans("JumpFalling", "movement",
               << Cond("directionZ", "<=", Num(1)), Cond("isJumping", "!=", Bool(TRUE)) >>, 1) >> }

InitGraph ==
    /\ InitController
    /\ transitions \in TransitionLists

\* the controller driven by its frames and its variables only
NextGraph == setupAnimations \/ SetVariable \/ ClipEnd \/ TickCrossFade \/ TickUpdate

SpecGraph == InitGraph /\ [][NextGraph]_vars

\* transition i leaves the current node and passes the test of evaluateTransitions
Fireable(i) ==
    /\ transitions[i].from = currentNodeId
    /\ TransitionValid(St, transitions[i])

\* C9: the transition update() selects is the first fireable one in
\* declaration order: no fireable transition is declared before it.
C9_FirstMatchWins ==
    [][(pc = "update" /\ pc' = "idle" /\ fired' # 0)
       => /\ Fireable(fired')
          /\ \A j \in 1 .. (fired' - 1) : ~Fireable(j)]_vars

\* a frame selected a transition although a later one from the same node had
\* its conditions met as well
C9_Witness ==
    /\ pc = "idle" /\ fired # 0
    /\ \E j \in (fired + 1) .. Len(transitions) :
          /\ transitions[j].from = transitions[fired].from
          /\ Len(transitions[j].conditions) > 0
          /\ \A k \in DOMAIN transitions[j].conditions :
                evaluateCondition(transitions[j].conditions[k])

\* C10: an unconditional transition is selected only when the current node is
\* a Single node that does not loop and whose clip stopped by reaching its end.
C10_OnlyNaturalCompletion ==
    [][(pc = "update" /\ pc' = "idle" /\ fired' # 0
          /\ Len(transitions[fired'].conditions) = 0)
       => /\ nodes[currentNodeId].type = "single"
          /\ ~nodes[currentNodeId].loop
          /\ ~isPlaying[nodes[currentNodeId].state]
          /\ ended[nodes[currentNodeId].state]]_vars

\* ------------------------------------------------------ guarded transitions
\* the comparison a condition names, on the value the variable was set to
Compares(op, value, target) ==
    LET numbers == value.type = "number" /\ target.type = "number"
    IN  \/ op = "==" /\ value = target
        \/ op = "!=" /\ value # target
        \/ op = ">"  /\ numbers /\ value.val > target.val
        \/ op = "<"  /\ numbers /\ value.val < target.val
        \/ op = ">=" /\ numbers /\ value.val >= target.val
        \/ op = "<=" /\ numbers /\ value.val <= target.val

\* a condition is true: its variable has been set and compares as named
ConditionTrue(c) ==
    /\ variables[c.variable] # Undefined
    /\ Compares(c.operator, variables[c.variable], c.value)

\* every condition of transition i is true
AllConditionsTrue(i) ==
    \A k \in DOMAIN transitions[i].conditions : ConditionTrue(transitions[i].conditions[k])

\* transition i leaves the current node and has conditions
Guarded(i) == transitions[i].from = currentNodeId /\ Len(transitions[i].conditions) > 0

\* C11: a guarded transition counts as satisfied exactly when all of its
\* conditions are true, a condition on a variable never set being false for
\* every comparator: the guarded transition a frame selects has all its
\* conditions true, and no guarded transition the frame passed over (all of
\* them when it selects none, the ones declared earlier otherwise) has.
C11_GuardIsConjunction ==
    [][(pc = "update" /\ pc' = "idle")
       => /\ (fired' # 0 /\ Len(transitions[fired'].conditions) > 0) => AllConditionsTrue(fired')
          /\ \A j \in DOMAIN transitions :
                (Guarded(j) /\ (fired' = 0 \/ j < fired')) => ~AllConditionsTrue(j)]_vars

\* a frame passed over a transition guarded by a "!=" on a variable that was
\* never set and selected a later transition of the same node
C11_Witness ==
    /\ pc = "idle" /\ fired # 0
    /\ \E j \in 1 .. (fired - 1) :
          /\ transitions[j].from = transitions[fired].from
          /\ \E k \in DOMAIN transitions[j].conditions :
                /\ transitions[j].conditions[k].operator = "!="
                /\ variables[transitions[j].conditions[k].variable] = Undefined

\* C12: a frame that runs with current node "movement" and isJumping = true
\* ends with current node "JumpUp", and a frame that runs with current node
\* "JumpFalling" and isJumping = false ends with current node "movement",
\* whether or not a cross-fade is active or the target's clip is bound (the
\* first half of the frame changes neither the current node nor a variable).
C12_GuardedFiresNextTick ==
    [][/\ (pc = "idle" /\ pc' = "update") => UNCHANGED << currentNodeId, variables >>
       /\ (pc = "update" /\ pc' = "idle") =>
             /\ (currentNodeId = "movement" /\ variables["isJumping"] = Bool(TRUE))
                   => currentNodeId' = "JumpUp"
             /\ (currentNodeId = "JumpFalling" /\ variables["isJumping"] = Bool(FALSE))
                   => currentNodeId' = "movement"]_vars

\* a frame took movement -> JumpUp while a cross-fade was in flight and no clip
\* is bound for JumpUp
C12_Witness ==
    /\ pc = "idle" /\ fired = 1
    /\ currentNodeId = "JumpUp"
    /\ "JumpUp" \notin animationGroups
    /\ activeBlend # Null

\* the state a whole frame with the given deltaTime leaves
FrameFrom(s, deltaTime) == update(updateCrossFade(s, deltaTime))

\* C13: between frames with current node "JumpUp" and its clip bound: if the
\* clip has reached its end, every frame that runs next ends with current
\* node "JumpFalling", whatever isJumping is; if the clip is still playing, no
\* frame that runs next leaves "JumpUp".
C13_JumpUpLeavesWhenFinished ==
    (pc = "idle" /\ currentNodeId = "JumpUp" /\ "JumpUp" \in animationGroups) =>
        \A deltaTime \in DeltaTimes :
            /\ (~isPlaying["JumpUp"] /\ ended["JumpUp"])
                  => FrameFrom(St, deltaTime).currentNodeId = "JumpFalling"
            /\ isPlaying["JumpUp"]
                  => FrameFrom(St, deltaTime).currentNodeId = "JumpUp"

\* the bound clips of a node
BoundClips(nodeId) == NodeClips(nodeId) \cap animationGroups

\* what an activation of nodeId with the given duration leaves behind, said
\* of the state r after the call: the node is current and its bound clips are
\* playing, at full weight after a hard cut, under a fresh cross-fade record
\* into the node otherwise
Activated(r, nodeId, crossFadeDuration) ==
    /\ r.currentNodeId = nodeId
    /\ \A c \in BoundClips(nodeId) : r.isPlaying[c]
    /\ (crossFadeDuration = 0 /\ nodes[nodeId].type = "single") =>
          \A c \in BoundClips(nodeId) : r.weight[c] = WScale
    /\ (crossFadeDuration = 0 /\ nodes[nodeId].type = "blend") =>
          \A c \in BoundClips(nodeId) : r.weight[c] = r.blendWeights[c]
    /\ (crossFadeDuration > 0 /\ BoundClips(nodeId) # {}) =>
          /\ r.activeBlend # Null
          /\ r.activeBlend.toState \in NodeClips(nodeId)
          /\ r.activeBlend.progress = 0
          /\ r.activeBlend.duration = crossFadeDuration

\* the fields of the controller and of its clips, without the history of the model
Observed(s) == << s.currentNodeId, s.activeBlend, s.blendWeights, s.isPlaying, s.weight >>

C15_UnknownNodeThrows ==
    [][(pc = "idle" /\ pc' = "idle" /\ \E crossFadeDuration \in Durations :
                                            PlayNodeWith("Unknown", crossFadeDuration))
       => /\ threw'
          /\ UNCHANGED << currentNodeId, activeBlend, blendWeights, isPlaying, weight >>]_vars

\* a playNode call with an unknown node id has thrown while a cross-fade was
\* in flight
C15_Witness ==
    /\ pc = "idle" /\ threw
    /\ activeBlend # Null /\ activeBlend.progress > 0

\* ------------------------------------------------------------ construction
\* node lists: the built-in one, and two with a node id declared twice
CtorNodeLists ==
    { ANIMATION_NODES,
      Append(ANIMATION_NODES, ANIMATION_NODES[2]),
      << ANIMATION_NODES[1],
         [type |-> "single", id |-> "movement", state |-> "Idle", speed |-> 1, loop |-> TRUE],
         ANIMATION_NODES[2], ANIMATION_NODES[3] >> }

\* transition lists: the ones above, one with a transition to and one with a
\* transition from a node that no list declares
CtorTransitionLists ==
    TransitionLists \cup
    { << Trans("movement", "JumpUp", IsJumping(TRUE), 0),
         Trans("JumpUp", "Landing", << >>, 0) >>,
      << Trans("movement", "JumpUp", IsJumping(TRUE), 0),
         Trans("Landing", "movement", IsJumping(FALSE), 0) >> }

CtorInitialIds == {"movement", "JumpFalling", "Unknown"}

\* before the constructor body runs: the field initialisers, currentNodeId
\* not yet assigned (written "")
InitNew ==
    /\ pc = "new"
    /\ currentNodeId = ""
    /\ activeBlend = Null
    /\ blendWeights = << >>
    /\ variables = [n \in VarNames |-> Undefined]
    /\ animationGroups = {}
    /\ isPlaying = [c \in AnimationState |-> FALSE]
    /\ weight = [c \in AnimationState |-> 0]
    /\ ended = [c \in AnimationState |-> FALSE]
    /\ fired = 0
    /\ threw = FALSE
    /\ graphData \in [nodes : CtorNodeLists, initial : CtorInitialIds]
    /\ notified = Null
    /\ onAnimationEvent = << >>
    /\ transitions \in CtorTransitionLists

\* new AnimationController(args): a constructor that throws yields no object
Construct ==
    /\ pc = "new"
    /\ IF ConstructorThrows(graphData.nodes, transitions, graphData.initial)
       THEN pc' = "failed" /\ threw' = TRUE /\ UNCHANGED currentNodeId
       ELSE pc' = "constructed" /\ threw' = FALSE /\ currentNodeId' = graphData.initial
    /\ NoNotification
    /\ UNCHANGED << activeBlend, blendWeights, transitions, variables, animationGroups,
                    isPlaying, weight, ended, fired, graphData >>

\* the graphs that pass the constructor have the built-in node list, the one
\* the operator nodes is the map of
NextCtor == Construct \/ setupAnimations \/ SetVariable \/ ClipEnd \/ TickCrossFade \/ TickUpdate

SpecCtor == InitNew /\ [][NextCtor]_vars

\* the graph data is malformed: a node id declared twice, a transition from
\* or to an undeclared node, an undeclared initial node
Malformed ==
    LET nodeList == graphData.nodes
        ids == {nodeList[i].id : i \in DOMAIN nodeList}
    IN  \/ Cardinality(ids) < Len(nodeList)
        \/ \E i \in DOMAIN transitions : {transitions[i].from, transitions[i].to} \ ids # {}
        \/ graphData.initial \notin ids

\* C16: construction fails on malformed graph data and nothing runs
\* afterwards (no step leaves a failed construction, so no frame does);
\* otherwise it succeeds with the initial node as current node.
C16_ConstructionValidates ==
    [][/\ pc # "failed"
       /\ pc = "new" =>
             IF Malformed
             THEN pc' = "failed" /\ threw'
             ELSE pc' = "constructed" /\ ~threw' /\ currentNodeId' = graphData.initial]_vars

\* construction failed on a graph whose only fault is a transition to an
\* undeclared node
C16_Witness ==
    /\ pc = "failed" /\ threw
    /\ graphData.nodes = ANIMATION_NODES
    /\ graphData.initial \in NodeIds
    /\ \A i \in DOMAIN transitions : transitions[i].from \in NodeIds
    /\ \E i \in DOMAIN transitions : transitions[i].to \notin NodeIds

\* ------------------------------------------------------------ unbound clips
\* scenes that lack the clip of a Single node and a member of the Blend node
PartialChoices ==
    { AnimationState \ {"JumpUp", "WalkForward"},
      AnimationState \ {"Idle", "JumpFalling"} }

setupAnimationsPartial == setupAnimationsWith(PartialChoices)

NextPartial ==
    setupAnimationsPartial \/ SetVariable \/ PlayNode \/ ClipEnd \/ TickCrossFade \/ TickUpdate

SpecPartial == Init /\ [][NextPartial]_vars

\* the nodes that reference a clip without an AnimationGroup
PartlyBound(nodeId) == BoundClips(nodeId) # NodeClips(nodeId)

\* C17: an unbound clip is never fatal.  In every state between frames: no
\* unbound clip plays or carries weight; playNode on a node that references
\* an unbound clip, with any duration, does not throw and makes the node
\* current; and a frame does not throw, in either half, and makes the target
\* of the transition it selects current, bound or not.
C17_UnboundClipNotFatal ==
    pc = "idle" =>
        /\ \A c \in AnimationState \ animationGroups : ~isPlaying[c] /\ weight[c] = 0
        /\ \A nodeId \in {n \in NodeIds : PartlyBound(n)} : \A crossFadeDuration \in Durations :
              /\ ~PlayNodeThrows(St, nodeId)
              /\ playNode(St, nodeId, crossFadeDuration).currentNodeId = nodeId
        /\ \A deltaTime \in DeltaTimes :
              LET s == updateCrossFade(St, deltaTime)
                  transition == updateSelects(s)
              IN  /\ ~updateCrossFadeThrows(St, deltaTime)
                  /\ ~updateThrows(s)
                  /\ transition # 0 => update(s).currentNodeId = transitions[transition].to

\* a frame has made a Single node current whose clip is unbound, and nothing threw
C17_Witness ==
    /\ pc = "idle" /\ fired # 0 /\ ~threw
    /\ currentNodeId = transitions[fired].to
    /\ nodes[currentNodeId].type = "single"
    /\ BoundClips(currentNodeId) = {}

\* ---------------------------------------------------------------- hard cut
\* the weight a clip of nodeId has when the node plays alone, in state r
FullWeight(r, nodeId, c) ==
    IF nodes[nodeId].type = "single" THEN WScale ELSE BlendWeightOr0(r, c)

\* r is the state an immediate hard cut from s to nodeId leaves: no cross-fade
\* record created, the bound clips of the node playing at full weight, every
\* other clip that was playing stopped at weight 0
HardCut(s, r, nodeId) ==
    /\ r.activeBlend = s.activeBlend
    /\ \A c \in BoundClips(nodeId) : r.isPlaying[c] /\ r.weight[c] = FullWeight(r, nodeId, c)
    /\ \A c \in AnimationState \ NodeClips(nodeId) :
          s.isPlaying[c] => (~r.isPlaying[c] /\ r.weight[c] = 0)

\* C18: an activation with duration 0 is a hard cut, whether it is a playNode
\* call between two frames or the activation of the transition a frame selects.
C18_ZeroDurationHardCut ==
    /\ pc = "idle" =>
          \A nodeId \in NodeIds :
              ~PlayNodeReturnsEarly(St, nodeId) => HardCut(St, playNode(St, nodeId, 0), nodeId)
    /\ pc = "update" =>
          LET s == updateBlendPart(St)
              transition == evaluateTransitions(s)
          IN  (transition # 0 /\ transitions[transition].crossFadeDuration = 0)
                 => HardCut(s, update(St), transitions[transition].to)

\* -------------------------------------------------------------- frame order
\* the fields of the controller and of its clips after the step
ObservedNext == << currentNodeId', activeBlend', blendWeights', isPlaying', weight' >>

\* C19: a frame runs its steps in a fixed order.  Its first half advances or
\* finalizes the cross-fade and does nothing else; its second half follows at
\* once and, on the state the first half left, recomputes the blend weights
\* if the current node is a Blend node, applies them (unless a cross-fade is
\* in flight), evaluates the transitions on the result and then activates
\* the target of the one selected.
C19_FrameOrder ==
    [][/\ (pc = "idle" /\ pc' = "update") =>
             /\ fired' = 0
             /\ \E deltaTime \in DeltaTimes :
                   ObservedNext = Observed(updateCrossFade(St, deltaTime))
       /\ pc = "update" =>
             LET blend == nodes[currentNodeId].type = "blend"
                 recomputed == IF blend THEN updateBlendNodeWeights(St, nodes[currentNodeId])
                               ELSE St
                 applied == IF blend /\ recomputed.activeBlend = Null
                            THEN applyBlendNodeWeights(recomputed) ELSE recomputed
                 selected == evaluateTransitions(applied)
                 activated == IF selected = 0 THEN applied
                              ELSE playNode(applied, transitions[selected].to,
                                            transitions[selected].crossFadeDuration)
             IN  /\ pc' = "idle"
                 /\ fired' = selected
                 /\ ObservedNext = Observed(activated)]_vars

\* a frame took JumpUp -> JumpFalling on a JumpUp clip that never reached its
\* end: the evaluation read the playing flag that the finalization of the
\* cross-fade had cleared earlier in the frame
C19_Witness ==
    /\ pc = "idle" /\ fired = 2
    /\ currentNodeId = "JumpFalling"
    /\ "JumpUp" \in animationGroups /\ ~ended["JumpUp"]
    /\ activeBlend = Null

\* ------------------------------------------------------ cross-fade record
\* the step sets a cross-fade record that is not the one in flight, advanced
RecordCreated ==
    /\ activeBlend' # Null
    /\ activeBlend' # activeBlend
    /\ ~(pc = "idle" /\ pc' = "update")

\* C20: the controller holds at most one cross-fade record.  A record is
\* created, with progress 0, only by an activation that asks for a duration
\* > 0: a playNode call, or the transition a frame selects.  The first half
\* of a frame advances the record by deltaTime / duration and clears it when
\* progress reaches 1.  A record that is set at the end of a frame (or after
\* a call between frames) has duration > 0 and 0 <= progress < 1.
C20_RecordLifecycle ==
    [][/\ RecordCreated =>
             /\ activeBlend'.progress = 0
             /\ activeBlend'.duration > 0
             /\ \/ /\ pc = "update"
                   /\ fired' # 0
                   /\ transitions[fired'].crossFadeDuration = activeBlend'.duration
                \/ /\ pc = "idle" /\ pc' = "idle"
                   /\ currentNodeId' \in NodeIds
                   /\ PlayNodeWith(currentNodeId', activeBlend'.duration)
       /\ (pc = "idle" /\ pc' = "update" /\ activeBlend # Null) =>
             \E deltaTime \in DeltaTimes :
                 IF activeBlend.progress + deltaTime >= activeBlend.duration
                 THEN activeBlend' = Null
                 ELSE activeBlend' = [activeBlend EXCEPT !.progress = @ + deltaTime]
       /\ (pc' = "idle" /\ activeBlend' # Null) =>
             /\ DOMAIN activeBlend' = {"fromState", "toState", "progress", "duration"}
             /\ activeBlend'.duration > 0
             /\ activeBlend'.progress >= 0
             /\ activeBlend'.progress < activeBlend'.duration]_vars

\* a frame has advanced a cross-fade into the current node and left it in flight
C20_Witness ==
    /\ pc = "idle" /\ activeBlend # Null
    /\ activeBlend.progress > 0 /\ activeBlend.progress < activeBlend.duration
    /\ NodeOf(activeBlend.toState) = currentNodeId

\* ---------------------------------------------------------- current node id
\* the step is a call of playNode between two frames that made nodeId current
ActivatedByCall ==
    /\ pc = "idle" /\ pc' = "idle"
    /\ currentNodeId' \in NodeIds
    /\ \E crossFadeDuration \in Durations :
          ObservedNext = Observed(playNode(St, currentNodeId', crossFadeDuration))

\* the step is the second half of a frame that selected a transition and
\* activated its target
ActivatedByTransition ==
    /\ pc = "update" /\ pc' = "idle"
    /\ fired' # 0
    /\ transitions[fired'].from = currentNodeId
    /\ currentNodeId' = transitions[fired'].to

\* C21: the current node id is the initial node "movement" after
\* construction and names a node of the graph in every state; a step changes
\* it only by a node activation (a playNode call, or the transition a frame
\* selected): a setVariable call and the two halves of a frame that selects
\* no transition leave it as it was.
C21_CurrentNodeId ==
    /\ [](/\ currentNodeId \in NodeIds
          /\ pc = "constructed" => currentNodeId = INITIAL_NODE_ID)
    /\ [][/\ currentNodeId' # currentNodeId => (ActivatedByCall \/ ActivatedByTransition)
          /\ variables' # variables => currentNodeId' = currentNodeId
          /\ (pc = "idle" /\ pc' = "update") => currentNodeId' = currentNodeId
          /\ (pc = "update" /\ fired' = 0) => currentNodeId' = currentNodeId]_vars

\* a frame that selected no transition has run on a node other than the initial one
C21_Witness ==
    /\ pc = "idle" /\ fired = 0 /\ ~threw
    /\ currentNodeId = "JumpFalling"
    /\ variables["isJumping"] = Bool(TRUE)
    /\ activeBlend # Null /\ activeBlend.progress > 0

\* ----------------------------------------------------------- variable store
\* the step is a setVariable(name, value) call and nothing else
SetVariableStep(name) ==
    /\ pc = "idle" /\ pc' = "idle"
    /\ variables'[name] # Undefined
    /\ variables' = [variables EXCEPT ![name] = variables'[name]]
    /\ ObservedNext = Observed(St)

\* C22: the variable store is read-only to the controller: the two halves of
\* a frame (updateCrossFade; update with its weight computation, transition
\* evaluation and activation) and a playNode call leave every variable as it
\* was, set or not; a step that changes the store is a setVariable call.
C22_StoreReadOnly ==
    [][/\ (pc = "idle" /\ pc' = "update") => variables' = variables
       /\ pc = "update" => variables' = variables
       /\ ObservedNext # Observed(St) => variables' = variables
       /\ variables' # variables => \E name \in VarNames : SetVariableStep(name)]_vars

\* a frame has taken movement -> JumpUp on isJumping = true, and isJumping is
\* still true
C22_Witness ==
    /\ pc = "idle" /\ fired = 1
    /\ currentNodeId = "JumpUp"
    /\ variables["isJumping"] = Bool(TRUE)
    /\ variables["directionX"] = Undefined

\* C23: getVariable(name) is undefined until setVariable(name, v) is called
\* and then returns the v of the latest such call: a setVariable call makes
\* getVariable return its value for its name and changes it for no other
\* name, and no other step (frame half, playNode call, clip end) changes what
\* getVariable returns for any name.
C23_GetReturnsLastSet ==
    /\ [](pc = "constructed" => \A name \in VarNames : getVariable(name) = Undefined)
    /\ [][\A name \in VarNames :
             /\ getVariable(name)' # getVariable(name) =>
                   /\ SetVariableStep(name)
                   /\ getVariable(name)' = variables'[name]
                   /\ getVariable(name)' \in InputValues(name)
             /\ (\E other \in VarNames \ {name} : SetVariableStep(other)
                                                     /\ variables'[other] # variables[other])
                   => getVariable(name)' = getVariable(name)
             /\ (pc # pc' \/ ObservedNext # Observed(St))
                   => getVariable(name)' = getVariable(name)]_vars

\* directionZ was set, frames and a playNode call followed, directionX was
\* never set: getVariable still returns the value set and undefined
C23_Witness ==
    /\ pc = "idle" /\ fired = 0
    /\ getVariable("directionZ") = Num(1)
    /\ getVariable("directionX") = Undefined
    /\ currentNodeId = "JumpFalling"
    /\ activeBlend # Null /\ activeBlend.progress > 0

\* ------------------------------------------------------- event republishing
\* the controller with the notifications of its clip provider
NextEvents == setupAnimations \/ PlayNode \/ ClipEnd \/ GroupNotification

SpecEvents == Init /\ [][NextEvents]_vars

\* the event type that names a notification
EventType(observable) ==
    CASE observable = "onAnimationGroupPlayObservable" -> "start"
      [] observable = "onAnimationGroupEndObservable" -> "end"
      [] observable = "onAnimationGroupLoopObservable" -> "loop"

\* C24: a step in which a bound group raises its play, end or loop observable
\* delivers exactly one event, with the AnimationState the group is bound to
\* and the event type start, end or loop; a notification of a group that is
\* not bound delivers nothing, and so does a step without a notification.
\* Delivery happens inside the notification, so the events arrive in the
\* order of the notifications.
C24_EventRepublishing ==
    [][IF notified' # Null /\ notified'.group \in animationGroups
       THEN onAnimationEvent' = << [animationName |-> notified'.group,
                                    eventType |-> EventType(notified'.observable)] >>
       ELSE onAnimationEvent' = << >>]_vars

\* the JumpFalling clip has looped while playing and the event was delivered
C24_Witness ==
    /\ pc = "idle"
    /\ notified = [group |-> "JumpFalling", observable |-> "onAnimationGroupLoopObservable"]
    /\ isPlaying["JumpFalling"]
    /\ onAnimationEvent = << [animationName |-> "JumpFalling", eventType |-> "loop"] >>

\* --------------------------------------------------------- blend calculator
\* the values directionX and directionZ are set to before the frames run: a
\* grid around the sample positions, and a huge finite number
BlendInputs == {Num(n) : n \in (0 - MaxBlendInput) .. MaxBlendInput} \cup {Num(Huge)}

InitBlend ==
    /\ InitController
    /\ transitions = ANIMATION_TRANSITIONS

\* setVariable("directionX" or "directionZ", value), before the scene is set up
SetDirection ==
    /\ pc = "constructed"
    /\ \E name \in {"directionX", "directionZ"} : \E value \in BlendInputs :
          variables' = [variables EXCEPT ![name] = value]
    /\ threw' = FALSE /\ fired' = 0
    /\ NoNotification
    /\ UNCHANGED << pc, currentNodeId, activeBlend, blendWeights, transitions,
                    animationGroups, isPlaying, weight, ended, graphData >>

\* the controller in the node "movement", its weights computed by the frames
NextBlend == SetDirection \/ setupAnimations \/ TickCrossFade \/ TickUpdate

SpecBlend == InitBlend /\ [][NextBlend]_vars

\* the input point of the blend calculator
InputX == DirInput("directionX")
InputZ == DirInput("directionZ")

MovementSamples == nodes["movement"].animations

\* C25: whenever the weights of the Blend node have been computed, there is
\* one weight per member clip, every weight is in (0, 1], and the weights
\* sum to 1 (up to the rounding of one unit per member).
C25_WeightsNormalised ==
    DOMAIN blendWeights # {} =>
        /\ DOMAIN blendWeights = NodeClips("movement")
        /\ \A c \in DOMAIN blendWeights : blendWeights[c] > 0 /\ blendWeights[c] <= WScale
        /\ SumOver(blendWeights, DOMAIN blendWeights) <= WScale
        /\ SumOver(blendWeights, DOMAIN blendWeights) >= WScale - Len(MovementSamples)

\* the squared distance of the input point to sample i
SquaredDistance(i) ==
    LET pos == MovementSamples[i].position
    IN  (InputX - pos.x) * (InputX - pos.x) + (InputZ - pos.z) * (InputZ - pos.z)

\* sample i has the greatest computed weight (NaN compares with nothing)
Greatest(i) ==
    /\ blendWeights[MovementSamples[i].state] # NaN
    /\ \A j \in DOMAIN MovementSamples :
          blendWeights[MovementSamples[i].state] >= blendWeights[MovementSamples[j].state]

\* C26: whenever the weights of the Blend node have been computed: if the
\* input point is the position of a sample, the weight of that sample is
\* less than 1 and greater than the weight of every other member; and in
\* general a member with the greatest weight is a member nearest to the
\* input point.
C26_NearestDominates ==
    DOMAIN blendWeights # {} =>
        \A i \in DOMAIN MovementSamples :
            /\ (InputX = MovementSamples[i].position.x /\ InputZ = MovementSamples[i].position.z)
                  => /\ blendWeights[MovementSamples[i].state] < WScale
                     /\ \A j \in DOMAIN MovementSamples \ {i} :
                           blendWeights[MovementSamples[i].state] >
                               blendWeights[MovementSamples[j].state]
            /\ Greatest(i) =>
                  \A j \in DOMAIN MovementSamples : SquaredDistance(i) <= SquaredDistance(j)

\* the weights were computed for the input (-2, 0), the position of RunLeft
C26_Witness ==
    /\ pc = "idle"
    /\ variables["directionX"] = Num(-2) /\ variables["directionZ"] = Undefined
    /\ DOMAIN blendWeights = NodeClips("movement")
    /\ Greatest(8)
    /\ weight["RunLeft"] = blendWeights["RunLeft"]

\* ------------------------------------------------------------ easing curve
EaseDurations == 1 .. MaxEaseDuration

\* playNode on one of the two Single nodes, cross-faded over a longer time
PlayNodeEased ==
    \E nodeId \in {"JumpUp", "JumpFalling"} : \E crossFadeDuration \in EaseDurations :
        PlayNodeWith(nodeId, crossFadeDuration)

\* cross-fades between the Single nodes, advanced frame by frame
NextEase == setupAnimations \/ PlayNodeEased \/ TickCrossFade \/ TickUpdate

SpecEase == Init /\ [][NextEase]_vars

\* C27: for the progress t = p / d of every cross-fade in flight (and p up to
\* d): ease(0) = 0, ease(1) = 1, ease(1/2) = 1/2, ease(t) + ease(1 - t) = 1
\* (up to one unit of rounding), and ease(t) <= ease(u) for every u >= t
\* in [0, 1].
C27_EaseCurve ==
    activeBlend # Null =>
        LET d == activeBlend.duration
        IN  /\ easeInOutQuad(0, d) = 0
            /\ easeInOutQuad(d, d) = WScale
            /\ easeInOutQuad(d, 2 * d) = WScale \div 2
            /\ d % 2 = 0 => easeInOutQuad(d \div 2, d) = WScale \div 2
            /\ \A n \in activeBlend.progress .. d :
                  /\ easeInOutQuad(n, d) + easeInOutQuad(d - n, d) \in {WScale - 1, WScale}
                  /\ \A e \in EaseDurations : \A m \in 0 .. e :
                        n * e <= m * d => easeInOutQuad(n, d) <= easeInOutQuad(m, e)

\* a frame has applied the curve at progress 1/3 to the incoming clip
C27_Witness ==
    /\ pc = "idle" /\ activeBlend # Null
    /\ activeBlend.progress = 1 /\ activeBlend.duration = 3
    /\ activeBlend.toState = "JumpUp" /\ activeBlend.fromState = "JumpFalling"
    /\ weight["JumpUp"] = easeInOutQuad(1, 3)
    /\ weight["JumpFalling"] = WScale - easeInOutQuad(1, 3)

\* ------------------------------------------------- cross-fade and current node
\* C28: in every state with a cross-fade active, the incoming clip of the
\* cross-fade is the clip of the current Single node or a member of the
\* current Blend node.
C28_CrossFadeTargetsCurrent ==
    activeBlend # Null => activeBlend.toState \in NodeClips(currentNodeId)

\* C29: a frame that ends without a cross-fade active, on a Single node whose
\* clip is bound and did not reach its end, leaves that clip playing at
\* weight 1.
C29_SettledSinglePlays ==
    [][(/\ pc = "update" /\ pc' = "idle"
        /\ activeBlend' = Null
        /\ nodes[currentNodeId'].type = "single"
        /\ nodes[currentNodeId'].state \in animationGroups
        /\ ~ended'[nodes[currentNodeId'].state])
       => /\ isPlaying'[nodes[currentNodeId'].state]
          /\ weight'[nodes[currentNodeId'].state] = WScale]_vars

\* ------------------------------------------------- one transition per frame
\* C30: a frame fires at most one transition and changes the current node at
\* most once.  Its first half leaves the current node alone; its second half
\* selects among the transitions from the node that is current then, makes
\* the target of the selected one current and stops there, whatever may be
\* fireable in the node entered; with the built-in transitions no frame
\* that starts in JumpUp ends in movement.
C30_OneTransitionPerFrame ==
    [][/\ (pc = "idle" /\ pc' = "update") => currentNodeId' = currentNodeId
       /\ pc = "update" =>
             /\ fired' = 0 => currentNodeId' = currentNodeId
             /\ fired' # 0 =>
                   /\ transitions[fired'].from = currentNodeId
                   /\ currentNodeId' = transitions[fired'].to
             /\ (transitions = ANIMATION_TRANSITIONS /\ currentNodeId = "JumpUp")
                   => currentNodeId' # "movement"]_vars

\* a frame has fired a transition into a node from which a transition is
\* fireable at once: that one is left for the next frame
C30_Witness ==
    /\ pc = "idle" /\ fired # 0
    /\ currentNodeId = transitions[fired].to
    /\ \E j \in DOMAIN transitions : Fireable(j)

\* ------------------------------------------------- cross-fade termination
\* frames whose deltaTime is positive
TickCrossFadeForward == \E deltaTime \in DeltaTimes \ {0} : TickCrossFadeBy(deltaTime)

NextFade == setupAnimations \/ PlayNode \/ ClipEnd \/ TickCrossFadeForward \/ TickUpdate

\* the render loop keeps calling the before-render callback
SpecFade ==
    /\ Init /\ [][NextFade]_vars
    /\ WF_vars(TickCrossFadeForward) /\ WF_vars(TickUpdate)

\* the progress of the cross-fade in flight, -1 for none
Progress == IF activeBlend = Null THEN -1 ELSE activeBlend.progress

\* C31: under frames with a positive deltaTime, the first half of every frame
\* that finds a cross-fade either raises its progress or clears it, and no
\* cross-fade stays forever: again and again the controller is without a
\* cross-fade or holds one that an activation has just started.
C31_CrossFadeTerminates ==
    /\ [][(pc = "idle" /\ pc' = "update" /\ activeBlend # Null)
            => (activeBlend' = Null \/ Progress' > Progress)]_vars
    /\ []<>(activeBlend = Null \/ Progress = 0)

\* a cross-fade of the longest duration is one frame short of its end
C31_Witness ==
    /\ pc = "update" /\ activeBlend # Null
    /\ activeBlend.duration = MaxDuration
    /\ activeBlend.progress = MaxDuration - 1

\* ------------------------------------------------------------ leaving JumpUp
\* the built-in graph driven by its frames and its variables, no playNode
\* call from outside: the render loop keeps calling the callback, and a
\* clip that does not loop and keeps being played reaches its end
SpecJump ==
    /\ Init /\ [][NextGraph]_vars
    /\ WF_vars(TickCrossFade) /\ WF_vars(TickUpdate) /\ SF_vars(ClipEnd)

\* C32: whenever the current node is "JumpUp", it eventually becomes
\* "JumpFalling", whether the scene has a JumpUp clip or not.
C32_LeavesJumpUp == (currentNodeId = "JumpUp") ~> (currentNodeId = "JumpFalling")

\* -------------------------------------------------- start of a cross-fade
\* C33: a step that starts a cross-fade (a playNode call, or the activation
\* of the transition a frame selected) leaves every bound clip of the node
\* it activates playing at weight ease(0) = 0, a Single node's clip as well
\* as the members of a Blend node.
C33_IncomingStartsAtZero ==
    [][RecordCreated =>
          \A c \in BoundClips(currentNodeId') :
              /\ isPlaying'[c]
              /\ weight'[c] = easeInOutQuad(0, activeBlend'.duration)]_vars

\* ------------------------------------------- blend weights during a cross-fade
\* C34: the second half of a frame whose current node is a Blend node
\* recomputes the blend weights from directionX / directionZ.  While a
\* cross-fade is active it leaves the clips alone (their playing flags and
\* weights are as the first half left them); without a cross-fade it
\* applies the weights: every bound member plays at its blend weight.
\* (Said of the frames that select no transition; an activation that
\* follows in the same update() acts on the clips in its own right.)
C34_AppliesOnlyWhenSettled ==
    [][(pc = "update" /\ nodes[currentNodeId].type = "blend")
       => LET computed == BlendWeightsAt(nodes[currentNodeId], InputX, InputZ)
          IN  /\ updateBlendPart(St).blendWeights = computed
              /\ (fired' = 0 /\ activeBlend # Null) =>
                    /\ blendWeights' = computed
                    /\ isPlaying' = isPlaying /\ weight' = weight
              /\ (fired' = 0 /\ activeBlend = Null) =>
                    /\ blendWeights' = computed
                    /\ \A c \in BoundClips(currentNodeId) :
                          isPlaying'[c] /\ weight'[c] = computed[c]]_vars

\* a frame has run in the Blend node with a cross-fade in flight: the blend
\* weights are those of the input (0, 1), and the clips do not carry them
C34_Witness ==
    /\ pc = "idle" /\ fired = 0 /\ ~threw
    /\ currentNodeId = "movement"
    /\ activeBlend # Null /\ activeBlend.progress > 0
    /\ variables["directionZ"] = Num(1)
    /\ blendWeights = MovementWeights[0][1]
    /\ weight["WalkForward"] # blendWeights["WalkForward"]

\* ----------------------------------------------------------- after setup
\* C35: when setupAnimations returns, the initial node has been played: the
\* blend weights of "movement" have been computed and every member clip the
\* scene has a group for is playing at its blend weight.
C35_InitialNodePlayed ==
    [][(pc = "constructed" /\ pc' = "idle")
       => /\ DOMAIN blendWeights' = NodeClips(currentNodeId')
          /\ \A c \in NodeClips(currentNodeId') \cap animationGroups' :
                isPlaying'[c] /\ weight'[c] = blendWeights'[c]]_vars

\* ------------------------------------------------------------ dominant clip
\* playNode with a cross-fade of one time unit, which records the dominant
\* clip of the node it leaves
PlayNodeFading == \E nodeId \in NodeIds : PlayNodeWith(nodeId, 1)

NextDominant == SetDirection \/ setupAnimations \/ PlayNodeFading \/ TickCrossFade \/ TickUpdate

SpecDominant == InitBlend /\ [][NextDominant]_vars

\* the members of a Blend node that have a positive weight stored
PositiveMembers(anims) == {i \in DOMAIN anims : BlendWeightOr0(St, anims[i].state) > 0}

\* C36: in every state, the dominant clip of a Single node is its clip; the
\* dominant clip of a Blend node is the first listed member when no member
\* has a positive weight stored, and otherwise the member of highest stored
\* weight, the first listed one among several of that weight.
C36_DominantClip ==
    \A nodeId \in NodeIds :
        LET dominant == getDominantAnimationState(St, nodeId)
        IN  IF nodes[nodeId].type = "single" THEN dominant = nodes[nodeId].state
            ELSE LET anims == nodes[nodeId].animations
                     stored(i) == BlendWeightOr0(St, anims[i].state)
                 IN  IF PositiveMembers(anims) = {} THEN dominant = anims[1].state
                     ELSE \E i \in PositiveMembers(anims) :
                             /\ dominant = anims[i].state
                             /\ \A j \in DOMAIN anims : stored(j) <= stored(i)
                             /\ \A j \in 1 .. (i - 1) : stored(j) < stored(i)

\* playNode has left the Blend node at the input (1, 1), where WalkForward
\* and WalkRight have the same, highest weight: the cross-fade goes out of
\* WalkForward, which is listed first
C36_Witness ==
    /\ pc = "idle" /\ activeBlend # Null
    /\ currentNodeId = "JumpUp"
    /\ InputX = 1 /\ InputZ = 1
    /\ blendWeights = BlendWeightsAt(nodes["movement"], 1, 1)
    /\ blendWeights["WalkForward"] = blendWeights["WalkRight"]
    /\ \A c \in DOMAIN blendWeights : blendWeights[c] <= blendWeights["WalkForward"]
    /\ activeBlend.fromState = "WalkForward"

\* ------------------------------------------------------- typed comparisons
\* the values a caller may pass to setVariable for any name, and the
\* literals of conditions: numbers and booleans
TypedValues == {Bool(TRUE), Bool(FALSE), Num(0), Num(1)}

Operators == {"==", "!=", ">", "<", ">=", "<="}

\* a graph whose conditions compare variables with literals of either type
TypedTransitions ==
    << Trans("movement", "JumpFalling", << Cond("isJumping", "==", Num(1)) >>, 0),
       Trans("movement", "JumpUp", << Cond("isJumping", "!=", Num(1)) >>, 0),
       Trans("JumpUp", "JumpFalling", << >>, 0),
       Trans("JumpUp", "movement", << Cond("directionZ", ">", Bool(FALSE)) >>, 0),
       Trans("JumpFalling", "movement", << Cond("directionZ", ">=", Num(1)) >>, 0),
       Trans("JumpFalling", "JumpUp", << Cond("directionZ", "==", Bool(TRUE)) >>, 0) >>

InitTyped ==
    /\ InitController
    /\ transitions = TypedTransitions

\* setVariable(name, value) with a number or a boolean for either name
SetAnyVariable ==
    /\ pc = "idle"
    /\ \E name \in {"isJumping", "directionZ"} : \E value \in TypedValues :
          variables' = [variables EXCEPT ![name] = value]
    /\ threw' = FALSE /\ fired' = 0
    /\ NoNotification
    /\ UNCHANGED << pc, currentNodeId, activeBlend, blendWeights, transitions,
                    animationGroups, isPlaying, weight, ended, graphData >>

NextTyped == setupAnimations \/ SetAnyVariable \/ ClipEnd \/ TickCrossFade \/ TickUpdate

SpecTyped == InitTyped /\ [][NextTyped]_vars

\* what the comparator op says of a set value and a literal
TypeStrict(op, value, literal) ==
    CASE op = "==" -> value.type = literal.type /\ value = literal
      [] op = "!=" -> ~(value.type = literal.type /\ value = literal)
      [] OTHER ->
           IF value.type = "boolean" \/ literal.type = "boolean" THEN FALSE
           ELSE CASE op = ">"  -> value.val > literal.val
                  [] op = "<"  -> value.val < literal.val
                  [] op = ">=" -> value.val >= literal.val
                  [] op = "<=" -> value.val <= literal.val

\* C37: in every state, for every set variable, comparator and literal, the
\* condition evaluates to the type-strict comparison: == only for the same
\* type and value, != its negation, and the four order comparators false
\* when either side is a boolean and the numeric comparison otherwise.
C37_TypeStrictComparators ==
    \A name \in VarNames : \A op \in Operators : \A literal \in TypedValues :
        variables[name] # Undefined =>
            (evaluateCondition(Cond(name, op, literal)) <=> TypeStrict(op, variables[name], literal))

\* a frame has taken movement -> JumpUp on isJumping != 1 with isJumping = true
C37_Witness ==
    /\ pc = "idle" /\ fired = 2
    /\ transitions = TypedTransitions
    /\ currentNodeId = "JumpUp"
    /\ variables["isJumping"] = Bool(TRUE)

\* ------------------------------------- automatic transitions of a Blend node
\* graphs that declare a transition without conditions from the Blend node,
\* before the guarded transitions from it or between them
AutoTransitionLists ==
    { << Trans("movement", "JumpFalling", << >>, 0),
         Trans("movement", "JumpUp", IsJumping(TRUE), 0),
         Trans("JumpUp", "JumpFalling", << >>, 0),
         Trans("JumpFalling", "movement", IsJumping(FALSE), 0) >>,
      << Trans("movement", "JumpFalling", << Cond("directionZ", ">=", Num(1)) >>, 1),
         Trans("movement", "JumpFalling", << >>, 1),
         Trans("movement", "JumpUp", IsJumping(TRUE), 1),
         Trans("JumpUp", "JumpFalling", << >>, 0),
         Trans("JumpFalling", "movement", IsJumping(FALSE), 1) >> }

InitAuto ==
    /\ InitController
    /\ transitions \in AutoTransitionLists

SpecAuto == InitAuto /\ [][NextGraph]_vars

\* transition i has no conditions and leaves a Blend node
AutoFromBlend(i) ==
    /\ Len(transitions[i].conditions) = 0
    /\ nodes[transitions[i].from].type = "blend"

\* transition i leaves the current node and all its conditions (at least one) hold
GuardedHolds(i) ==
    /\ transitions[i].from = currentNodeId
    /\ Len(transitions[i].conditions) > 0
    /\ \A k \in DOMAIN transitions[i].conditions : evaluateCondition(transitions[i].conditions[k])

\* C38: no step fires a transition without conditions whose from-node is a
\* Blend node, and the second half of a frame in a Blend node fires the first
\* declared transition from it whose conditions hold, also when a transition
\* without conditions from the node is declared before it (none when no
\* guarded transition holds).
C38_AutoFromBlendNeverFires ==
    /\ [](fired # 0 => ~AutoFromBlend(fired))
    /\ [][(pc = "update" /\ nodes[currentNodeId].type = "blend") =>
             /\ (\A i \in DOMAIN transitions : ~GuardedHolds(i)) => fired' = 0
             /\ \A i \in DOMAIN transitions :
                   (GuardedHolds(i) /\ \A j \in 1..(i - 1) : ~GuardedHolds(j)) => fired' = i]_vars

\* a frame in the Blend node has fired a guarded transition declared after a
\* transition without conditions from that node
C38_Witness ==
    /\ pc = "idle" /\ fired # 0
    /\ nodes[transitions[fired].from].type = "blend"
    /\ \E j \in 1..(fired - 1) :
          AutoFromBlend(j) /\ transitions[j].from = transitions[fired].from
====
